---- MODULE Spec2Model ----
(***************************************************************************)
(* Model of the multi-round tool-orchestration engine                      *)
(* (backend/ai_generator.py), of the tools and the tool registry           *)
(* (backend/search_tools.py), and of the caller that reads and resets the  *)
(* citations after each answer (RAGSystem.query).                          *)
(***************************************************************************)
EXTENDS Integers, Sequences, FiniteSets, TLC

(* ------------------------------ bounds -------------------------------- *)

\* number of queries the caller runs one after another
MaxQueries == 2

(* ------------------------- program constants -------------------------- *)

MAX_TOOL_ROUNDS == 2

\* Python's None where the other values of the field are strings
None == "None"

SYSTEM_PROMPT == "SYSTEM_PROMPT"

(* --------------------------- Python helpers --------------------------- *)

\* dict.get(key) is not None / keyword argument present
Has(d, k) == k \in DOMAIN d

RECURSIVE Join(_, _)
\* sep.join(parts)
Join(parts, sep) ==
    IF Len(parts) = 0 THEN ""
    ELSE IF Len(parts) = 1 THEN parts[1]
    ELSE parts[1] \o sep \o Join(Tail(parts), sep)

(* ------------------------- retrieval backend -------------------------- *)

\* course titles of the corpus, in the order Python compares the strings
CourseTitles == <<"A Course", "B Course">>

TitleRank(t) == CHOOSE i \in 1..Len(CourseTitles) : CourseTitles[i] = t

\* VectorStore.get_lesson_link: the lesson's link, None when the lesson has none
get_lesson_link(course_title, lesson_num) ==
    IF course_title = "A Course"
    THEN "https://example.com/a/lesson-" \o ToString(lesson_num)
    ELSE None

\* SearchResults values VectorStore.search returns in this model
SearchResultsSet ==
    { [documents |-> <<>>, metadata |-> <<>>, error |-> "Search error: backend down"],
      [documents |-> <<>>, metadata |-> <<>>, error |-> None],
      [documents |-> <<"doc1">>,
       metadata  |-> <<[course_title |-> "A Course", lesson_number |-> 1]>>,
       error     |-> None],
      [documents |-> <<"doc1", "doc2">>,
       metadata  |-> <<[course_title |-> "B Course", lesson_number |-> 0],
                       [course_title |-> "A Course"]>>,
       error     |-> None] }

\* SearchResults.is_empty
is_empty(results) == Len(results.documents) = 0

\* values VectorStore.get_course_outline returns: <<>> is "nothing found"
OutlineSet ==
    { <<>>,
      <<[title |-> "A Course", course_link |-> "https://example.com/a",
         lessons |-> <<[lesson_number |-> 0, lesson_title |-> "Intro"],
                       [lesson_number |-> 1, lesson_title |-> "Basics"]>>]>> }

(* --------------------------- CourseSearchTool -------------------------- *)

SourceLink(text, link) == [text |-> text, link |-> link]

\* the sort key of line 127: float("inf") for a fragment without a lesson
Infinity == 1000000

\* the lesson link looked up for every fragment, with lesson None for a
\* fragment without a lesson number (the backend has no link for it)
SourceEntryAlwaysLooksUp(meta) ==
    LET course_title == IF Has(meta, "course_title") THEN meta.course_title ELSE "unknown"
        has_lesson   == Has(meta, "lesson_number")
        source_text  == IF has_lesson
                        THEN course_title \o " - Lesson " \o ToString(meta.lesson_number)
                        ELSE course_title
        lesson_link  == IF has_lesson
                        THEN get_lesson_link(course_title, meta.lesson_number)
                        ELSE None
    IN  [source |-> SourceLink(source_text, lesson_link),
         title  |-> course_title,
         lesson |-> IF has_lesson THEN meta.lesson_number ELSE Infinity,
         lookup |-> IF has_lesson THEN <<[course_title |-> course_title,
                                          lesson_number |-> meta.lesson_number]>>
                    ELSE <<[course_title |-> course_title]>>]

\* one entry of sources_with_metadata (lines 101-129); lookup is the call of
\* store.get_lesson_link made for the fragment, if one is made (lines 116-118)
SourceEntry(meta) ==
    LET course_title == IF Has(meta, "course_title") THEN meta.course_title ELSE "unknown"
        has_lesson   == Has(meta, "lesson_number")
        source_text  == IF has_lesson
                        THEN course_title \o " - Lesson " \o ToString(meta.lesson_number)
                        ELSE course_title
        lesson_link  == IF has_lesson
                        THEN get_lesson_link(course_title, meta.lesson_number)
                        ELSE None
    IN  [source |-> SourceLink(source_text, lesson_link),
         title  |-> course_title,
         lesson |-> IF has_lesson THEN meta.lesson_number ELSE Infinity,
         lookup |-> IF has_lesson THEN <<[course_title |-> course_title,
                                          lesson_number |-> meta.lesson_number]>>
                    ELSE <<>>]

\* the header names the lesson only when the lesson number is truthy
FormatFragmentTruthy(doc, meta) ==
    LET course_title == IF Has(meta, "course_title") THEN meta.course_title ELSE "unknown"
        header == "[" \o course_title
                  \o (IF Has(meta, "lesson_number") /\ meta.lesson_number # 0
                      THEN " - Lesson " \o ToString(meta.lesson_number) ELSE "")
                  \o "]"
    IN  header \o "\n" \o doc

\* the text of one fragment (lines 105-109, 131)
FormatFragment(doc, meta) ==
    LET course_title == IF Has(meta, "course_title") THEN meta.course_title ELSE "unknown"
        header == "[" \o course_title
                  \o (IF Has(meta, "lesson_number")
                      THEN " - Lesson " \o ToString(meta.lesson_number) ELSE "")
                  \o "]"
    IN  header \o "\n" \o doc

\* the comparison of a sort by course title only
KeyLessTitleOnly(a, b) == TitleRank(a.title) < TitleRank(b.title)

\* the key comparison of sort(key=lambda x: (x[1], x[2]))
KeyLess(a, b) ==
    \/ TitleRank(a.title) < TitleRank(b.title)
    \/ a.title = b.title /\ a.lesson < b.lesson

RECURSIVE InsertSorted(_, _)
InsertSorted(sorted, e) ==
    IF Len(sorted) = 0 THEN <<e>>
    ELSE IF KeyLess(e, sorted[1]) THEN <<e>> \o sorted
    ELSE <<sorted[1]>> \o InsertSorted(Tail(sorted), e)

RECURSIVE SortEntries(_)
\* list.sort is stable: equal keys keep their order
SortEntries(entries) ==
    IF Len(entries) = 0 THEN <<>>
    ELSE InsertSorted(SortEntries(SubSeq(entries, 1, Len(entries) - 1)),
                      entries[Len(entries)])

RECURSIVE Flatten(_)
\* the members of a sequence of sequences, in order
Flatten(seqs) == IF Len(seqs) = 0 THEN <<>> ELSE seqs[1] \o Flatten(Tail(seqs))

\* CourseSearchTool._format_results: the text returned, the new last_sources
\* and the calls of store.get_lesson_link made, in the order of the fragments
format_results(results) ==
    LET n       == IF Len(results.documents) < Len(results.metadata)
                   THEN Len(results.documents) ELSE Len(results.metadata)
        entries == [i \in 1..n |-> SourceEntry(results.metadata[i])]
        sorted  == SortEntries(entries)
    IN  [text         |-> Join([i \in 1..n |->
                                 FormatFragment(results.documents[i], results.metadata[i])],
                               "\n\n"),
         last_sources |-> [i \in 1..n |-> sorted[i].source],
         lookups      |-> Flatten([i \in 1..n |-> entries[i].lookup])]

\* the keyword arguments bind to execute(query, course_name=None, lesson_number=None)
SearchArgsBind(input) ==
    /\ Has(input, "query")
    /\ DOMAIN input \subseteq {"query", "course_name", "lesson_number"}

\* the new citations are added to the list instead of replacing it
CourseSearchTool_execute_extends(input, results, old_sources) ==
    IF results.error # None /\ results.error # ""
    THEN [text |-> results.error, last_sources |-> old_sources, lookups |-> <<>>]
    ELSE IF is_empty(results)
    THEN [text |-> "No relevant content found.", last_sources |-> old_sources, lookups |-> <<>>]
    ELSE [text         |-> format_results(results).text,
          last_sources |-> old_sources \o format_results(results).last_sources,
          lookups      |-> format_results(results).lookups]

\* the citations the list already holds are left out of the new list
CourseSearchTool_execute_dedups(input, results, old_sources) ==
    IF results.error # None /\ results.error # ""
    THEN [text |-> results.error, last_sources |-> old_sources, lookups |-> <<>>]
    ELSE IF is_empty(results)
    THEN [text |-> "No relevant content found.", last_sources |-> old_sources, lookups |-> <<>>]
    ELSE [text         |-> format_results(results).text,
          last_sources |-> SelectSeq(format_results(results).last_sources,
                                     LAMBDA c : \A i \in 1..Len(old_sources) :
                                                   old_sources[i] # c),
          lookups      |-> format_results(results).lookups]

\* the list is emptied before the search is made
CourseSearchTool_execute_clears_first(input, results, old_sources) ==
    IF results.error # None /\ results.error # ""
    THEN [text |-> results.error, last_sources |-> <<>>, lookups |-> <<>>]
    ELSE IF is_empty(results)
    THEN [text |-> "No relevant content found.", last_sources |-> <<>>, lookups |-> <<>>]
    ELSE format_results(results)

\* the emptiness test made before the error test
CourseSearchTool_execute_empty_first(input, results, old_sources) ==
    IF is_empty(results)
    THEN [text |-> "No relevant content found.", last_sources |-> old_sources, lookups |-> <<>>]
    ELSE IF results.error # None /\ results.error # ""
    THEN [text |-> results.error, last_sources |-> old_sources, lookups |-> <<>>]
    ELSE format_results(results)

\* CourseSearchTool.execute after store.search returned results:
\* the text returned and last_sources afterwards
CourseSearchTool_execute(input, results, old_sources) ==
    IF results.error # None /\ results.error # ""
    THEN [text |-> results.error, last_sources |-> old_sources, lookups |-> <<>>]
    ELSE IF is_empty(results)
    THEN LET f1 == IF Has(input, "course_name") /\ input.course_name # ""
                   THEN " in course '" \o input.course_name \o "'" ELSE ""
             f2 == IF Has(input, "lesson_number") /\ input.lesson_number # 0
                   THEN " in lesson " \o ToString(input.lesson_number) ELSE ""
         IN  [text |-> "No relevant content found" \o f1 \o f2 \o ".",
              last_sources |-> old_sources, lookups |-> <<>>]
    ELSE format_results(results)

(* -------------------------- CourseOutlineTool -------------------------- *)

OutlineArgsBind(input) == DOMAIN input = {"course_name"}

\* the lessons are listed last first
format_outline_reversed(outline) ==
    LET head    == <<"Course: " \o outline.title>>
        link    == IF Has(outline, "course_link") /\ outline.course_link # ""
                   THEN <<"Link: " \o outline.course_link>> ELSE <<>>
        instr   == IF Has(outline, "instructor") /\ outline.instructor # ""
                   THEN <<"Instructor: " \o outline.instructor>> ELSE <<>>
        lessons == IF Has(outline, "lessons") THEN outline.lessons ELSE <<>>
        block   == IF Len(lessons) > 0
                   THEN <<"\nLessons (" \o ToString(Len(lessons)) \o " total):">>
                        \o [i \in 1..Len(lessons) |->
                              "  Lesson "
                              \o ToString(lessons[Len(lessons) + 1 - i].lesson_number)
                              \o ": " \o lessons[Len(lessons) + 1 - i].lesson_title]
                   ELSE <<"\nNo lessons found.">>
    IN  Join(head \o link \o instr \o block, "\n")

\* CourseOutlineTool._format_outline
format_outline(outline) ==
    LET head    == <<"Course: " \o outline.title>>
        link    == IF Has(outline, "course_link") /\ outline.course_link # ""
                   THEN <<"Link: " \o outline.course_link>> ELSE <<>>
        instr   == IF Has(outline, "instructor") /\ outline.instructor # ""
                   THEN <<"Instructor: " \o outline.instructor>> ELSE <<>>
        lessons == IF Has(outline, "lessons") THEN outline.lessons ELSE <<>>
        block   == IF Len(lessons) > 0
                   THEN <<"\nLessons (" \o ToString(Len(lessons)) \o " total):">>
                        \o [i \in 1..Len(lessons) |->
                              "  Lesson " \o ToString(lessons[i].lesson_number)
                              \o ": " \o lessons[i].lesson_title]
                   ELSE <<"\nNo lessons found.">>
    IN  Join(head \o link \o instr \o block, "\n")

\* a course without lessons is reported as not found
CourseOutlineTool_execute_needs_lessons(input, found) ==
    IF Len(found) = 0 \/ ~Has(found[1], "lessons") \/ Len(found[1].lessons) = 0
    THEN "No course found matching '" \o input.course_name \o "'."
    ELSE format_outline(found[1])

\* CourseOutlineTool.execute after store.get_course_outline returned found
CourseOutlineTool_execute(input, found) ==
    IF Len(found) = 0
    THEN "No course found matching '" \o input.course_name \o "'."
    ELSE format_outline(found[1])

(* ----------------------------- ToolManager ----------------------------- *)

\* the tool instances RAGSystem creates
SearchTool == "search_tool"
OutlineTool == "outline_tool"

\* further implementations of the Tool interface a ToolManager can be given:
\* a search tool of its own schema name that keeps last_sources as
\* CourseSearchTool does, a tool whose definition has no "name" key and a
\* tool whose definition has the name "", and a second CourseSearchTool
\* instance, whose schema name is that of the first
NotesTool == "notes_tool"
SecondSearchTool == "second_search_tool"
NamelessTool == "nameless_tool"
EmptyNameTool == "empty_name_tool"

ToolInstances == {SearchTool, OutlineTool, NotesTool, NamelessTool, EmptyNameTool,
                  SecondSearchTool}

\* tool.get_tool_definition().get("name"): None when the key is missing
ToolDefName(tool) ==
    CASE tool = SearchTool    -> "search_course_content"
      [] tool = SecondSearchTool -> "search_course_content"
      [] tool = OutlineTool   -> "get_course_outline"
      [] tool = NotesTool     -> "search_notes"
      [] tool = EmptyNameTool -> ""
      [] OTHER                -> None

\* hasattr(tool, "last_sources"): CourseSearchTool.__init__ sets it
HasLastSources(tool) == tool \in {SearchTool, NotesTool, SecondSearchTool}

\* the tools whose execute is CourseSearchTool.execute
IsSearchTool(tool) == tool \in {SearchTool, NotesTool, SecondSearchTool}

\* only a missing name is refused
register_raises_missing_only(tool) == ToolDefName(tool) = None

\* ToolManager.register_tool lines 226-229: "if not tool_name: raise ValueError"
register_raises(tool) == ToolDefName(tool) \in {None, ""}

\* position of name in the dict self.tools (0 when absent); the dict keeps
\* insertion order
ToolIndex(tm, name) ==
    IF \E i \in 1..Len(tm) : tm[i].name = name
    THEN CHOOSE i \in 1..Len(tm) : tm[i].name = name
    ELSE 0

\* a name already registered keeps its tool (self.tools.setdefault)
register_tool_keeps_first(tm, tool) ==
    LET tool_name == ToolDefName(tool)
        i == ToolIndex(tm, tool_name)
    IN  IF i = 0 THEN Append(tm, [name |-> tool_name, tool |-> tool])
        ELSE tm

\* ToolManager.register_tool for a tool whose definition has a name:
\* self.tools[tool_name] = tool
register_tool(tm, tool) ==
    LET tool_name == ToolDefName(tool)
        i == ToolIndex(tm, tool_name)
    IN  IF i = 0 THEN Append(tm, [name |-> tool_name, tool |-> tool])
        ELSE [tm EXCEPT ![i] = [name |-> tool_name, tool |-> tool]]

\* ToolManager.get_tool_definitions (a definition is represented by its name)
get_tool_definitions(tm) == [i \in 1..Len(tm) |-> tm[i].name]

\* the lists of the tools are not looked at
get_last_sources_none(tm, ls) == <<>>

\* ToolManager.get_last_sources
get_last_sources(tm, ls) ==
    LET hits == {i \in 1..Len(tm) : HasLastSources(tm[i].tool) /\ Len(ls[tm[i].tool]) > 0}
    IN  IF hits = {} THEN <<>>
        ELSE ls[tm[CHOOSE i \in hits : \A j \in hits : i <= j].tool]

\* the loop left after the first tool that tracks sources
reset_sources_first(tm, ls) ==
    LET tracking == {i \in 1..Len(tm) : HasLastSources(tm[i].tool)}
    IN  [t \in DOMAIN ls |->
            IF tracking # {} /\ tm[CHOOSE i \in tracking : \A j \in tracking : i <= j].tool = t
            THEN <<>> ELSE ls[t]]

\* a reset that clears nothing
reset_sources_kept(tm, ls) == ls

\* ToolManager.reset_sources
reset_sources(tm, ls) ==
    [t \in DOMAIN ls |->
        IF \E i \in 1..Len(tm) : tm[i].tool = t /\ HasLastSources(t) THEN <<>> ELSE ls[t]]

(* ----------------------------- LLM backend ---------------------------- *)

TextBlock(text) == [type |-> "text", text |-> text]

ToolUseBlock(id, name, input) ==
    [type |-> "tool_use", id |-> id, name |-> name, input |-> input]

EmptyInput == [k \in {} |-> k]

USearch  == ToolUseBlock("", "search_course_content", [query |-> "testing"])
UOutline == ToolUseBlock("", "get_course_outline", [course_name |-> "A Course"])
UBad     == ToolUseBlock("", "search_course_content", EmptyInput)
UUnknown == ToolUseBlock("", "unknown_tool", EmptyInput)

\* the responses client.messages.create may return (before the identifiers
\* of the tool-invocation requests are filled in)
Responses ==
    { [stop_reason |-> "end_turn", content |-> <<TextBlock("Answer")>>],
      [stop_reason |-> "end_turn", content |-> <<TextBlock("Answer"), TextBlock("More")>>],
      [stop_reason |-> "end_turn", content |-> <<>>],
      [stop_reason |-> "tool_use", content |-> <<USearch>>],
      [stop_reason |-> "tool_use", content |-> <<UOutline>>],
      [stop_reason |-> "tool_use", content |-> <<TextBlock("Let me look"), UOutline, USearch>>],
      [stop_reason |-> "tool_use", content |-> <<UBad>>],
      [stop_reason |-> "tool_use", content |-> <<UUnknown, USearch>>],
      [stop_reason |-> "tool_use", content |-> <<USearch, TextBlock("After")>>],
      [stop_reason |-> "tool_use", content |-> <<TextBlock("Thinking")>>] }

\* the backend gives every tool-invocation request a unique identifier
WithIds(content, call) ==
    [i \in 1..Len(content) |->
        IF content[i].type = "tool_use"
        THEN [content[i] EXCEPT !.id = "toolu_" \o ToString(call) \o "_" \o ToString(i)]
        ELSE content[i]]

NoResponse == [stop_reason |-> None, content |-> <<>>]

(* ------------------------------- state -------------------------------- *)

VARIABLES
    pc,            \* position of the query: idle, awaiting_model, executing_tools, done, failed
    tools,         \* generate_response argument tools (<<>> when None)
    tool_manager,  \* generate_response argument tool_manager (None when absent)
    conversation_history, \* generate_response argument conversation_history
    system_content, \* the local system_content (None before the first query)
    messages,      \* the transcript
    api_params,    \* keyword arguments of the pending client.messages.create call
    response,      \* the last response of the model
    tool_round,    \* the round counter
    tool_results,  \* results collected so far in the round being executed
    block_idx,     \* next content block the round's for loop looks at
    result,        \* the value generate_response returned
    tm_tools,      \* ToolManager.tools: sequence of [name, tool] in insertion order
    last_sources,  \* last_sources of every tool instance that has the attribute
    qnum,          \* number of queries the caller has started
    answer,        \* what the caller got back for the last query
    call_log,      \* the model calls issued in the current query
    exec_log,      \* the tool executions of the current query
    failure,       \* why the current query failed: None, model, tool, return
    past_failures, \* why the queries before the current one failed
    last_op,       \* the last operation called directly on a tool or on the
                   \* ToolManager, with its arguments and its outcome
    populate_order, \* the tools with last_sources, in the order in which their
                   \* lists were last populated
    concurrent     \* two queries in flight at once: their registries and their
                   \* own counters and transcripts (None when there is one query)

engine   == <<pc, tools, tool_manager, conversation_history, system_content,
              messages, api_params, response, tool_round,
              tool_results, block_idx, result>>
registry == <<tm_tools, last_sources>>
caller   == <<qnum, answer, past_failures>>
history  == <<call_log, exec_log, failure>>
direct   == <<last_op, populate_order, concurrent>>
vars     == <<engine, registry, caller, history, direct>>

NoAnswer == [status |-> "none", text |-> None, sources |-> <<>>]

NoOp == [op |-> "none"]

Queries == {"What is testing?"}

Init ==
    /\ pc = "idle"
    /\ tools = <<>>
    /\ tool_manager = None
    /\ conversation_history = None
    /\ system_content = None
    /\ messages = <<>>
    /\ api_params = [system |-> SYSTEM_PROMPT]
    /\ response = NoResponse
    /\ tool_round = 0
    /\ tool_results = <<>>
    /\ block_idx = 1
    /\ result = None
    /\ tm_tools = register_tool(register_tool(<<>>, SearchTool), OutlineTool)
    /\ last_sources = [t \in {SearchTool} |-> <<>>]
    /\ qnum = 0
    /\ answer = NoAnswer
    /\ call_log = <<>>
    /\ exec_log = <<>>
    /\ failure = None
    /\ past_failures = {}
    /\ last_op = NoOp
    /\ populate_order = <<>>
    /\ concurrent = None

(* ---------------------- AIGenerator.generate_response ------------------ *)

\* line 78: what stands between the static prompt and the history
HistoryHeader == "\n\nPrevious conversation:\n"

\* the histories a caller passes: none, or the formatted earlier exchanges
Histories == {None, "User: hi\nAssistant: hello"}

\* lines 76-81: system_content ("if conversation_history" is a truth test)
SystemContent(summary) ==
    IF summary # None /\ summary # ""
    THEN SYSTEM_PROMPT \o HistoryHeader \o summary
    ELSE SYSTEM_PROMPT

\* the keyword arguments kept on the instance between queries: tools
\* withheld on the last call of a query stay withheld
initial_params_kept(tls, system) ==
    IF Len(tls) > 0 /\ (qnum = 0 \/ Len(call_log) = 0 \/ "tools" \in DOMAIN api_params)
    THEN [system |-> system] @@ [tools |-> tls, tool_choice |-> [type |-> "auto"]]
    ELSE [system |-> system]

\* the tools keys are set without the test of line 94
initial_params_always(tls, system) ==
    [system |-> system] @@ [tools |-> tls, tool_choice |-> [type |-> "auto"]]

\* lines 87-96: the keyword arguments of the first call
initial_params(tls, system) ==
    IF Len(tls) > 0
    THEN [system |-> system] @@ [tools |-> tls, tool_choice |-> [type |-> "auto"]]
    ELSE [system |-> system]

\* the loop condition without the test of the stop reason
LoopContinuesIgnoringStop(resp, round, mgr) ==
    /\ round < MAX_TOOL_ROUNDS
    /\ mgr # None

\* the loop condition with the bound test off by one (<= for <)
LoopContinuesOffByOne(resp, round, mgr) ==
    /\ resp.stop_reason = "tool_use"
    /\ round <= MAX_TOOL_ROUNDS
    /\ mgr # None

\* the loop condition without the test of the round counter
LoopContinuesUnbounded(resp, round, mgr) ==
    /\ resp.stop_reason = "tool_use"
    /\ mgr # None

\* lines 103-105: the condition of the while loop
LoopContinues(resp, round, mgr) ==
    /\ resp.stop_reason = "tool_use"
    /\ round < MAX_TOOL_ROUNDS
    /\ mgr # None

\* the final-round test with > for >=
is_final_round_strict(round) == round > MAX_TOOL_ROUNDS

\* line 112
is_final_round(round) == round >= MAX_TOOL_ROUNDS

\* the history is left out of the system instruction after a round
next_params_static(round, tls, system) ==
    IF ~is_final_round(round) /\ Len(tls) > 0
    THEN [system |-> SYSTEM_PROMPT] @@ [tools |-> tls, tool_choice |-> [type |-> "auto"]]
    ELSE [system |-> SYSTEM_PROMPT]

\* lines 115-124: the keyword arguments of the call after a round
next_params(round, tls, system) ==
    IF ~is_final_round(round) /\ Len(tls) > 0
    THEN [system |-> system] @@ [tools |-> tls, tool_choice |-> [type |-> "auto"]]
    ELSE [system |-> system]

\* line 130: response.content[0].text raises IndexError on an empty content
\* and AttributeError on a block that has no text attribute
ReturnRaises(resp) ==
    \/ Len(resp.content) = 0
    \/ ~Has(resp.content[1], "text")

\* the text of the last text block instead of the first block
ReturnTextLast(resp) ==
    LET texts == SelectSeq(resp.content, LAMBDA b : Has(b, "text"))
    IN  texts[Len(texts)].text

\* line 130: the value returned
ReturnText(resp) == resp.content[1].text

\* the last tool_use block at or after position from is taken first
NextToolUseLast(content, from) ==
    LET rest == {i \in from..Len(content) : content[i].type = "tool_use"}
    IN  IF rest = {} THEN 0 ELSE CHOOSE i \in rest : \A j \in rest : i >= j

\* lines 149-150: the next tool_use block at or after position from, 0 if none
NextToolUse(content, from) ==
    LET rest == {i \in from..Len(content) : content[i].type = "tool_use"}
    IN  IF rest = {} THEN 0 ELSE CHOOSE i \in rest : \A j \in rest : i <= j

\* lines 156-160
ToolResult(block, payload) ==
    [type |-> "tool_result", tool_use_id |-> block.id, content |-> payload]

\* the results collected in reverse order
CollectResultFront(results, block, payload) == <<ToolResult(block, payload)>> \o results

\* line 156: tool_results.append
CollectResult(results, block, payload) == Append(results, ToolResult(block, payload))

\* only the tool-invocation requests of the response are kept
AssistantTurnRequestsOnly(resp) ==
    [role |-> "assistant",
     content |-> SelectSeq(resp.content, LAMBDA b : b.type = "tool_use")]

\* line 145
AssistantTurn(resp) == [role |-> "assistant", content |-> resp.content]

\* the carrier turn appended without the test of line 163
WithCarrierTurnAlways(msgs, results) == Append(msgs, [role |-> "user", content |-> results])

\* lines 163-164
WithCarrierTurn(msgs, results) ==
    IF Len(results) > 0 THEN Append(msgs, [role |-> "user", content |-> results])
    ELSE msgs

\* what client.messages.create was called with
CallRecord == [params |-> api_params, messages |-> messages, round |-> tool_round]

\* RAGSystem.query up to the first model call: generate_response lines 76-96
StartQuery(query, summary, tls, mgr) ==
    /\ pc = "idle"
    /\ qnum < MaxQueries
    /\ qnum' = qnum + 1
    /\ answer' = NoAnswer
    /\ tools' = tls
    /\ tool_manager' = mgr
    /\ conversation_history' = summary
    /\ system_content' = SystemContent(summary)
    /\ messages' = <<[role |-> "user", content |-> query]>>
    /\ api_params' = initial_params(tls, SystemContent(summary))
    /\ response' = NoResponse
    /\ tool_round' = 0
    /\ tool_results' = <<>>
    /\ block_idx' = 1
    /\ result' = None
    /\ call_log' = <<>>
    /\ exec_log' = <<>>
    /\ failure' = None
    /\ pc' = "awaiting_model"
    /\ UNCHANGED <<direct, registry, past_failures>>

\* the raise is caught and the call is made again
ModelCallRaisesRetried ==
    /\ pc = "awaiting_model"
    /\ call_log' = Append(call_log, CallRecord)
    /\ failure' = "model"
    /\ UNCHANGED <<direct, pc, tools, tool_manager, conversation_history,
                   system_content, messages, api_params, response, tool_round,
                   tool_results, block_idx, result, registry, caller, exec_log>>

\* lines 99 and 127: client.messages.create raises; nothing catches it
ModelCallRaises ==
    /\ pc = "awaiting_model"
    /\ call_log' = Append(call_log, CallRecord)
    /\ failure' = "model"
    /\ pc' = "failed"
    /\ UNCHANGED <<direct, tools, tool_manager, conversation_history,
                   system_content, messages, api_params, response, tool_round,
                   tool_results, block_idx, result, registry, caller, exec_log>>

\* the counter left where it was
NextRoundSkipped(round) == round

\* line 106: tool_round += 1, on entering the loop body
NextRound(round) == round + 1

\* lines 99-106 and 127, 103-106: the call returns r, the loop condition is
\* evaluated and the round is entered (the assistant turn is appended, line 145)
ModelCallEntersRound(r) ==
    /\ pc = "awaiting_model"
    /\ LoopContinues(r, tool_round, tool_manager)
    /\ call_log' = Append(call_log, CallRecord)
    /\ response' = r
    /\ tool_round' = NextRound(tool_round)
    /\ messages' = Append(messages, AssistantTurn(r))
    /\ tool_results' = <<>>
    /\ block_idx' = 1
    /\ pc' = "executing_tools"
    /\ UNCHANGED <<direct, tools, tool_manager, conversation_history,
                   system_content, api_params, result, registry, caller,
                   exec_log, failure>>

\* lines 99/127, 103-105, 130: the call returns r, the loop is left and the
\* first content block's text is returned
ModelCallReturns(r) ==
    /\ pc = "awaiting_model"
    /\ ~LoopContinues(r, tool_round, tool_manager)
    /\ call_log' = Append(call_log, CallRecord)
    /\ response' = r
    /\ IF ReturnRaises(r)
       THEN /\ failure' = "return"
            /\ pc' = "failed"
            /\ UNCHANGED result
       ELSE /\ result' = ReturnText(r)
            /\ pc' = "done"
            /\ UNCHANGED failure
    /\ UNCHANGED <<direct, tools, tool_manager, conversation_history,
                   system_content, messages, api_params, tool_round,
                   tool_results, block_idx, registry, caller, exec_log>>

ModelCall ==
    \E r0 \in Responses :
        LET r == [r0 EXCEPT !.content = WithIds(r0.content, Len(call_log) + 1)]
        IN  ModelCallEntersRound(r) \/ ModelCallReturns(r)

(* -------------- AIGenerator._execute_tools_and_build_messages ---------- *)

ToolPending ==
    /\ pc = "executing_tools"
    /\ NextToolUse(response.content, block_idx) # 0

CurrentBlock == response.content[NextToolUse(response.content, block_idx)]

\* the tool registered under the requested name
CurrentTool == tm_tools[ToolIndex(tm_tools, CurrentBlock.name)].tool

\* lines 151-160: execute_tool returned payload; ls is last_sources afterwards
ToolReturns(payload, ls, populated) ==
    /\ tool_results' = CollectResult(tool_results, CurrentBlock, payload)
    /\ block_idx' = NextToolUse(response.content, block_idx) + 1
    /\ last_sources' = ls
    /\ exec_log' = Append(exec_log,
                          [block |-> CurrentBlock, round |-> tool_round, outcome |-> "returned",
                           content |-> payload, populated |-> populated,
                           sources |-> IF populated THEN ls[SearchTool] ELSE <<>>])
    /\ UNCHANGED <<direct, pc, tools, tool_manager, conversation_history,
                   system_content, messages, api_params, response, tool_round,
                   result, tm_tools, caller, call_log, failure>>

\* the lookup of a name that is not registered raises
ExecuteUnknownToolRaises ==
    /\ ToolPending
    /\ ToolIndex(tm_tools, CurrentBlock.name) = 0
    /\ exec_log' = Append(exec_log,
                          [block |-> CurrentBlock, round |-> tool_round, outcome |-> "raised",
                           content |-> None, populated |-> FALSE, sources |-> <<>>])
    /\ failure' = "tool"
    /\ pc' = "failed"
    /\ UNCHANGED <<direct, tools, tool_manager, conversation_history,
                   system_content, messages, api_params, response, tool_round,
                   tool_results, block_idx, result, registry, caller, call_log>>

\* ToolManager.execute_tool lines 238-239: the name is not registered
ExecuteUnknownTool ==
    /\ ToolPending
    /\ ToolIndex(tm_tools, CurrentBlock.name) = 0
    /\ ToolReturns("Tool '" \o CurrentBlock.name \o "' not found", last_sources, FALSE)

\* ToolManager.execute_tool line 241 with CourseSearchTool.execute
ExecuteSearch ==
    /\ ToolPending
    /\ ToolIndex(tm_tools, CurrentBlock.name) # 0
    /\ CurrentTool = SearchTool
    /\ SearchArgsBind(CurrentBlock.input)
    /\ \E results \in SearchResultsSet :
          LET out == CourseSearchTool_execute(CurrentBlock.input, results,
                                              last_sources[SearchTool])
          IN  ToolReturns(out.text,
                          [last_sources EXCEPT ![SearchTool] = out.last_sources],
                          (results.error = None \/ results.error = "")
                              /\ ~is_empty(results))

\* ToolManager.execute_tool line 241 with CourseOutlineTool.execute
ExecuteOutline ==
    /\ ToolPending
    /\ ToolIndex(tm_tools, CurrentBlock.name) # 0
    /\ CurrentTool = OutlineTool
    /\ OutlineArgsBind(CurrentBlock.input)
    /\ \E found \in OutlineSet :
          ToolReturns(CourseOutlineTool_execute(CurrentBlock.input, found),
                      last_sources, FALSE)

\* line 241: tool.execute(**kwargs) raises TypeError when the arguments the
\* model sent do not bind to the parameters of execute; nothing catches it
ExecuteToolRaises ==
    /\ ToolPending
    /\ ToolIndex(tm_tools, CurrentBlock.name) # 0
    /\ \/ CurrentTool = SearchTool /\ ~SearchArgsBind(CurrentBlock.input)
       \/ CurrentTool = OutlineTool /\ ~OutlineArgsBind(CurrentBlock.input)
    /\ exec_log' = Append(exec_log,
                          [block |-> CurrentBlock, round |-> tool_round, outcome |-> "raised",
                           content |-> None, populated |-> FALSE, sources |-> <<>>])
    /\ failure' = "tool"
    /\ pc' = "failed"
    /\ UNCHANGED <<direct, tools, tool_manager, conversation_history,
                   system_content, messages, api_params, response, tool_round,
                   tool_results, block_idx, result, registry, caller, call_log>>

\* lines 162-166 and 111-124: no tool_use block is left; the carrier turn is
\* appended and the next call is prepared
BuildMessages ==
    /\ pc = "executing_tools"
    /\ NextToolUse(response.content, block_idx) = 0
    /\ messages' = WithCarrierTurn(messages, tool_results)
    /\ api_params' = next_params(tool_round, tools, system_content)
    /\ block_idx' = Len(response.content) + 1
    /\ pc' = "awaiting_model"
    /\ UNCHANGED <<direct, tools, tool_manager, conversation_history,
                   system_content, response, tool_round, tool_results, result,
                   registry, caller, history>>

(* ------------------------------ the caller ----------------------------- *)

\* RAGSystem.query after generate_response returned: the citations are read,
\* then reset, and the answer is returned with them
FinishQuery ==
    /\ pc = "done"
    /\ answer' = [status |-> "ok", text |-> result,
                  sources |-> get_last_sources(tm_tools, last_sources)]
    /\ last_sources' = reset_sources(tm_tools, last_sources)
    /\ pc' = "idle"
    /\ UNCHANGED <<direct, tools, tool_manager, conversation_history,
                   system_content, messages, api_params, response, tool_round,
                   tool_results, block_idx, result, tm_tools, qnum, past_failures,
                   history>>

\* RAGSystem.query when generate_response raised: the exception propagates
PropagateFailure ==
    /\ pc = "failed"
    /\ answer' = [status |-> "failed", text |-> None, sources |-> <<>>]
    /\ past_failures' = past_failures \cup {failure}
    /\ pc' = "idle"
    /\ UNCHANGED <<direct, tools, tool_manager, conversation_history,
                   system_content, messages, api_params, response, tool_round,
                   tool_results, block_idx, result, registry, qnum, history>>

(* --------------------------- specification ---------------------------- *)

Next ==
    \/ \E query \in Queries, summary \in Histories,
          tls \in {<<>>, get_tool_definitions(tm_tools)},
          mgr \in {None, "tool_manager"} : StartQuery(query, summary, tls, mgr)
    \/ ModelCall
    \/ ModelCallRaises
    \/ ExecuteUnknownTool
    \/ ExecuteSearch
    \/ ExecuteOutline
    \/ ExecuteToolRaises
    \/ BuildMessages
    \/ FinishQuery
    \/ PropagateFailure

Spec == Init /\ [][Next]_vars

\* the model call and the tool executions return or raise, and the caller
\* runs to the end of the query
FairSpec ==
    /\ Spec
    /\ WF_vars(ModelCall \/ ModelCallRaises)
    /\ WF_vars(ExecuteUnknownTool \/ ExecuteSearch \/ ExecuteOutline \/ ExecuteToolRaises)
    /\ WF_vars(BuildMessages)
    /\ WF_vars(FinishQuery)
    /\ WF_vars(PropagateFailure)

(* ------------------- the ToolManager used directly -------------------- *)

\* ToolManager(): nothing is registered; the tools exist with empty lists
InitRegistry ==
    /\ pc = "idle"
    /\ tools = <<>>
    /\ tool_manager = None
    /\ conversation_history = None
    /\ system_content = None
    /\ messages = <<>>
    /\ api_params = [system |-> SYSTEM_PROMPT]
    /\ response = NoResponse
    /\ tool_round = 0
    /\ tool_results = <<>>
    /\ block_idx = 1
    /\ result = None
    /\ tm_tools = <<>>
    /\ last_sources = [t \in {SearchTool, NotesTool, SecondSearchTool} |-> <<>>]
    /\ qnum = 0
    /\ answer = NoAnswer
    /\ call_log = <<>>
    /\ exec_log = <<>>
    /\ failure = None
    /\ past_failures = {}
    /\ last_op = NoOp
    /\ populate_order = <<>>
    /\ concurrent = None

\* tool moved to the end of the order
PopulatedLast(order, tool) == SelectSeq(order, LAMBDA t : t # tool) \o <<tool>>

\* manager.register_tool(tool)
RegisterTool(tool) ==
    /\ tm_tools' = IF register_raises(tool) THEN tm_tools ELSE register_tool(tm_tools, tool)
    /\ last_op' = [op |-> "register_tool", tool |-> tool,
                   raised |-> IF register_raises(tool) THEN "ValueError" ELSE None]
    /\ UNCHANGED <<engine, last_sources, caller, history, populate_order, concurrent>>

\* the names and keyword arguments execute_tool is called with
DispatchNames == {"search_course_content", "get_course_outline", "search_notes",
                  "unknown_tool"}
DispatchInputs == {[query |-> "testing"], [course_name |-> "A Course"]}

\* manager.execute_tool(name, **input)
DispatchTool(name, input) ==
    LET i    == ToolIndex(tm_tools, name)
        tool == tm_tools[i].tool
        op   == [op |-> "execute_tool", name |-> name, input |-> input]
    IN
    /\ IF i = 0
       THEN /\ last_op' = op @@ [raised |-> None,
                                  value  |-> "Tool '" \o name \o "' not found"]
            /\ UNCHANGED <<last_sources, populate_order>>
       ELSE IF IsSearchTool(tool)
       THEN IF ~SearchArgsBind(input)
            THEN /\ last_op' = op @@ [raised |-> "TypeError", value |-> None]
                 /\ UNCHANGED <<last_sources, populate_order>>
            ELSE \E results \in SearchResultsSet :
                   LET out == CourseSearchTool_execute(input, results, last_sources[tool])
                   IN  /\ last_op' = op @@ [raised |-> None, value |-> out.text,
                                              results |-> results]
                       /\ last_sources' = [last_sources EXCEPT ![tool] = out.last_sources]
                       /\ populate_order' =
                              IF (results.error = None \/ results.error = "")
                                 /\ ~is_empty(results)
                              THEN PopulatedLast(populate_order, tool)
                              ELSE populate_order
       ELSE /\ IF ~OutlineArgsBind(input)
               THEN last_op' = op @@ [raised |-> "TypeError", value |-> None]
               ELSE \E found \in OutlineSet :
                      last_op' = op @@ [raised |-> None,
                                        value  |-> CourseOutlineTool_execute(input, found)]
            /\ UNCHANGED <<last_sources, populate_order>>
    /\ UNCHANGED <<engine, tm_tools, caller, history, concurrent>>

\* manager.get_last_sources()
GetLastSources ==
    /\ last_op' = [op |-> "get_last_sources",
                   value |-> get_last_sources(tm_tools, last_sources)]
    /\ UNCHANGED <<engine, registry, caller, history, populate_order, concurrent>>

\* manager.get_tool_definitions()
GetToolDefinitions ==
    /\ last_op' = [op |-> "get_tool_definitions",
                   value |-> get_tool_definitions(tm_tools)]
    /\ UNCHANGED <<engine, registry, caller, history, populate_order, concurrent>>

\* manager.reset_sources()
ResetSources ==
    /\ last_sources' = reset_sources(tm_tools, last_sources)
    /\ last_op' = [op |-> "reset_sources"]
    /\ UNCHANGED <<engine, tm_tools, caller, history, populate_order, concurrent>>

NextRegistry ==
    \/ \E tool \in ToolInstances : RegisterTool(tool)
    \/ \E name \in DispatchNames, input \in DispatchInputs : DispatchTool(name, input)
    \/ GetLastSources
    \/ GetToolDefinitions
    \/ ResetSources

RegistrySpec == InitRegistry /\ [][NextRegistry]_vars

(* ---------------- the content-search tool used directly --------------- *)

MaxFragments == 2
MaxLesson == 1

\* lessons are numbered from 0
LessonNumbers == 0..MaxLesson

\* the metadata of a fragment: a course title and, optionally, a lesson number
FragmentMetas ==
    {[course_title |-> CourseTitles[i]] : i \in 1..Len(CourseTitles)}
    \cup {[course_title |-> CourseTitles[i], lesson_number |-> n] :
             i \in 1..Len(CourseTitles), n \in LessonNumbers}

\* the error strings of VectorStore.search
ErrorStrings == {"Search error: backend down", "No course found matching 'A Course'"}

EmptyResults == [documents |-> <<>>, metadata |-> <<>>, error |-> None]

\* what VectorStore.search returns: an error, nothing, or 1..MaxFragments
\* fragments in ranking order
DirectResults ==
    {[documents |-> <<>>, metadata |-> <<>>, error |-> e] : e \in ErrorStrings}
    \cup {EmptyResults}
    \cup UNION {{[documents |-> [i \in 1..n |-> "doc" \o ToString(i)],
                  metadata  |-> m,
                  error     |-> None] : m \in [1..n -> FragmentMetas]} :
               n \in 1..MaxFragments}

\* the keyword arguments of execute: query, optional course_name and
\* lesson_number
DirectInputs ==
    {[query |-> "testing"] @@ c @@ l :
        c \in {EmptyInput, [course_name |-> "A Course"]},
        l \in {EmptyInput} \cup {[lesson_number |-> n] : n \in LessonNumbers}}

\* the results populate last_sources (lines 80-93)
Populates(results) ==
    (results.error = None \/ results.error = "") /\ ~is_empty(results)

\* tool.execute(**input) while store.search returns results; had is the
\* length of last_sources before the call, repeat tells that the call before
\* had the same arguments and got the same results from the backend
DirectSearch(input, results) ==
    LET out == CourseSearchTool_execute(input, results, last_sources[SearchTool])
    IN  /\ last_sources' = [last_sources EXCEPT ![SearchTool] = out.last_sources]
        /\ last_op' = [op |-> "search", input |-> input, results |-> results,
                       value |-> out.text, had |-> Len(last_sources[SearchTool]),
                       lookups |-> out.lookups,
                       repeat |-> /\ last_op.op = "search"
                                  /\ last_op.input = input
                                  /\ last_op.results = results]
        /\ populate_order' = IF Populates(results)
                             THEN PopulatedLast(populate_order, SearchTool)
                             ELSE populate_order
        /\ UNCHANGED <<engine, tm_tools, caller, history, concurrent>>

\* the searches made one after another on one tool: fragments of three kinds
SequenceMetas ==
    { [course_title |-> "A Course", lesson_number |-> 1],
      [course_title |-> "B Course", lesson_number |-> 0],
      [course_title |-> "A Course"] }

SequenceResults ==
    {r \in DirectResults : \A i \in 1..Len(r.metadata) : r.metadata[i] \in SequenceMetas}

SequenceInputs ==
    { [query |-> "testing"],
      [query |-> "testing", course_name |-> "A Course", lesson_number |-> 1] }

NextSearch ==
    \E input \in SequenceInputs, results \in SequenceResults : DirectSearch(input, results)

\* any number of searches on the tool of a fresh ToolManager
SearchSpec == Init /\ [][NextSearch]_vars

\* one call of execute, on arguments and a backend result chosen beforehand
InitFormat ==
    /\ pc = "idle"
    /\ tools = <<>>
    /\ tool_manager = None
    /\ conversation_history = None
    /\ system_content = None
    /\ messages = <<>>
    /\ api_params = [system |-> SYSTEM_PROMPT]
    /\ response = NoResponse
    /\ tool_round = 0
    /\ tool_results = <<>>
    /\ block_idx = 1
    /\ result = None
    /\ tm_tools = register_tool(register_tool(<<>>, SearchTool), OutlineTool)
    /\ last_sources = [t \in {SearchTool} |-> <<>>]
    /\ qnum = 0
    /\ answer = NoAnswer
    /\ call_log = <<>>
    /\ exec_log = <<>>
    /\ failure = None
    /\ past_failures = {}
    /\ \E input \in DirectInputs, results \in DirectResults :
          last_op = [op |-> "call", input |-> input, results |-> results]
    /\ populate_order = <<>>
    /\ concurrent = None

ApplySearch ==
    /\ last_op.op = "call"
    /\ DirectSearch(last_op.input, last_op.results)

FormatSpec == InitFormat /\ [][ApplySearch]_vars

(* ------------------- the outline tool used directly ------------------- *)

MaxOutlineLessons == 2

\* the lessons of a stored course, in any stored order
LessonEntries ==
    {[lesson_number |-> n, lesson_title |-> "Title " \o ToString(n)] : n \in LessonNumbers}

LessonLists == UNION {[1..n -> LessonEntries] : n \in 0..MaxOutlineLessons}

\* what VectorStore.get_course_outline returns for a course it found; a
\* field the course does not have is left out
DirectOutlines ==
    {[title |-> "A Course"] @@ l @@ i @@ ls :
        l  \in {EmptyInput, [course_link |-> "https://example.com/a"]},
        i  \in {EmptyInput, [instructor |-> "Ada"]},
        ls \in {EmptyInput} \cup {[lessons |-> x] : x \in LessonLists}}

\* the course names the tool is asked for
OutlineNames == {"A Course", "Nope", ""}

\* one call of execute, on a name and a backend answer chosen beforehand
InitOutline ==
    /\ pc = "idle"
    /\ tools = <<>>
    /\ tool_manager = None
    /\ conversation_history = None
    /\ system_content = None
    /\ messages = <<>>
    /\ api_params = [system |-> SYSTEM_PROMPT]
    /\ response = NoResponse
    /\ tool_round = 0
    /\ tool_results = <<>>
    /\ block_idx = 1
    /\ result = None
    /\ tm_tools = register_tool(register_tool(<<>>, SearchTool), OutlineTool)
    /\ last_sources = [t \in {SearchTool} |-> <<>>]
    /\ qnum = 0
    /\ answer = NoAnswer
    /\ call_log = <<>>
    /\ exec_log = <<>>
    /\ failure = None
    /\ past_failures = {}
    /\ \E name \in OutlineNames, found \in {<<>>} \cup {<<o>> : o \in DirectOutlines} :
          last_op = [op |-> "outline_call", input |-> [course_name |-> name],
                     found |-> found]
    /\ populate_order = <<>>
    /\ concurrent = None

\* tool.execute(course_name=...) while store.get_course_outline returns found
ApplyOutline ==
    /\ last_op.op = "outline_call"
    /\ last_op' = [op |-> "outline", input |-> last_op.input, found |-> last_op.found,
                   value |-> CourseOutlineTool_execute(last_op.input, last_op.found)]
    /\ UNCHANGED <<engine, registry, caller, history, populate_order, concurrent>>

OutlineSpec == InitOutline /\ [][ApplyOutline]_vars

(* -------------------------- concurrent queries ------------------------- *)

\* the queries in flight at once, and the ToolManager instances they may use
QueryIds == {1, 2}

\* the ToolManager (with its tools) query q uses: its own, or the one all
\* queries share
RegistryOf(q) == IF concurrent.shared THEN 1 ELSE q

\* last_sources kept on the class: one list for all the instances
SourcesOfClass(r) == 1

\* self.last_sources is an attribute of the tool instance: the list of the
\* CourseSearchTool registered in ToolManager r
SourcesOf(r) == r

\* what the model answers to a query in flight
ConcurrentResponses ==
    { [stop_reason |-> "end_turn", content |-> <<TextBlock("Answer")>>],
      [stop_reason |-> "tool_use", content |-> <<USearch>>] }

\* what the backend finds for the searches of query q: nothing, or one
\* fragment of the course the query is about
ConcurrentResults(q) ==
    { EmptyResults,
      [documents |-> <<"doc1">>,
       metadata  |-> <<[course_title |-> CourseTitles[q], lesson_number |-> 0]>>,
       error     |-> None] }

\* a query before it starts. left is the list the query's own searches
\* leave on a tool nobody else uses; disturbed tells that, since the
\* query's last populating search, another query populated or reset the
\* list the query is going to read
IdleQuery ==
    [pc |-> "idle", tool_round |-> 0, messages |-> <<>>, response |-> NoResponse,
     sources |-> <<>>, left |-> <<>>, disturbed |-> FALSE]

InitConcurrent ==
    /\ pc = "idle"
    /\ tools = <<>>
    /\ tool_manager = None
    /\ conversation_history = None
    /\ system_content = None
    /\ messages = <<>>
    /\ api_params = [system |-> SYSTEM_PROMPT]
    /\ response = NoResponse
    /\ tool_round = 0
    /\ tool_results = <<>>
    /\ block_idx = 1
    /\ result = None
    /\ tm_tools = register_tool(register_tool(<<>>, SearchTool), OutlineTool)
    /\ last_sources = [t \in {SearchTool} |-> <<>>]
    /\ qnum = 0
    /\ answer = NoAnswer
    /\ call_log = <<>>
    /\ exec_log = <<>>
    /\ failure = None
    /\ past_failures = {}
    /\ last_op = NoOp
    /\ populate_order = <<>>
    /\ \E shared \in BOOLEAN :
          concurrent = [shared       |-> shared,
                        last_sources |-> [r \in QueryIds |-> last_sources],
                        query        |-> [q \in QueryIds |-> IdleQuery]]

\* the other queries that use the ToolManager of query q
Sharers(q) == {p \in QueryIds \ {q} : RegistryOf(p) = RegistryOf(q)}

\* the queries whose list is disturbed by a write of query q to its registry
DisturbedBy(q, queries) ==
    [p \in QueryIds |->
        IF p \in Sharers(q) /\ queries[p].pc \notin {"read", "finished"}
        THEN [queries[p] EXCEPT !.disturbed = TRUE]
        ELSE queries[p]]

\* generate_response is entered for query q (lines 76-84)
QueryStarts(q) ==
    /\ concurrent.query[q].pc = "idle"
    /\ concurrent' = [concurrent EXCEPT
                        !.query[q].pc = "awaiting_model",
                        !.query[q].messages = <<[role |-> "user", content |-> Queries]>>]
    /\ UNCHANGED <<engine, registry, caller, history, last_op, populate_order>>

\* client.messages.create returns resp to query q (lines 99-112)
QueryModelCall(q, resp) ==
    LET me == concurrent.query[q]
        r  == [resp EXCEPT !.content = WithIds(resp.content, me.tool_round + 1)]
    IN  /\ me.pc = "awaiting_model"
        /\ concurrent' =
               IF LoopContinues(r, me.tool_round, "tool_manager")
               THEN [concurrent EXCEPT
                        !.query[q].pc = "executing_tools",
                        !.query[q].response = r,
                        !.query[q].tool_round = me.tool_round + 1,
                        !.query[q].messages = Append(me.messages, AssistantTurn(r))]
               ELSE [concurrent EXCEPT
                        !.query[q].pc = "done",
                        !.query[q].response = r]
        /\ UNCHANGED <<engine, registry, caller, history, last_op, populate_order>>

\* the round of query q executes its search request on the query's
\* ToolManager while store.search returns results (lines 132-166)
QueryExecutesTools(q, results) ==
    LET me    == concurrent.query[q]
        r     == SourcesOf(RegistryOf(q))
        block == me.response.content[1]
        out   == CourseSearchTool_execute(block.input, results,
                                          concurrent.last_sources[r][SearchTool])
        alone == CourseSearchTool_execute(block.input, results, me.left)
        mine  == [me EXCEPT
                    !.pc = "awaiting_model",
                    !.messages = WithCarrierTurn(me.messages, <<ToolResult(block, out.text)>>),
                    !.left = alone.last_sources,
                    !.disturbed = IF Populates(results) THEN FALSE ELSE me.disturbed]
        after == [concurrent.query EXCEPT ![q] = mine]
    IN  /\ me.pc = "executing_tools"
        /\ concurrent' = [concurrent EXCEPT
                            !.last_sources[r][SearchTool] = out.last_sources,
                            !.query = IF Populates(results) THEN DisturbedBy(q, after)
                                      ELSE after]
        /\ UNCHANGED <<engine, registry, caller, history, last_op, populate_order>>

\* RAGSystem.query for query q, after generate_response returned:
\* sources = self.tool_manager.get_last_sources(). The lists the call reads
\* are those of one instant of the call
QueryReadsSources(q) ==
    /\ concurrent.query[q].pc = "done"
    /\ concurrent' = [concurrent EXCEPT
                        !.query[q].pc = "read",
                        !.query[q].sources =
                            get_last_sources(tm_tools,
                                             concurrent.last_sources[SourcesOf(RegistryOf(q))])]
    /\ UNCHANGED <<engine, registry, caller, history, last_op, populate_order>>

\* RAGSystem.query for query q: self.tool_manager.reset_sources()
QueryResetsSources(q) ==
    LET after == [concurrent.query EXCEPT ![q].pc = "finished"]
    IN  /\ concurrent.query[q].pc = "read"
        /\ concurrent' = [concurrent EXCEPT
                            !.last_sources[SourcesOf(RegistryOf(q))] =
                                reset_sources(tm_tools,
                                              concurrent.last_sources[SourcesOf(RegistryOf(q))]),
                            !.query = DisturbedBy(q, after)]
        /\ UNCHANGED <<engine, registry, caller, history, last_op, populate_order>>

NextConcurrent ==
    \/ \E q \in QueryIds : QueryStarts(q)
    \/ \E q \in QueryIds, resp \in ConcurrentResponses : QueryModelCall(q, resp)
    \/ \E q \in QueryIds : \E results \in ConcurrentResults(q) : QueryExecutesTools(q, results)
    \/ \E q \in QueryIds : QueryReadsSources(q)
    \/ \E q \in QueryIds : QueryResetsSources(q)

ConcurrentSpec == InitConcurrent /\ [][NextConcurrent]_vars

(* ------------------------------ properties ---------------------------- *)

Range(seq) == {seq[i] : i \in 1..Len(seq)}

\* the tool-invocation requests of a content, in order
Requests(content) == SelectSeq(content, LAMBDA b : b.type = "tool_use")

\* the rounds of the current query in which a tool was executed
ExecutedRounds == {exec_log[i].round : i \in 1..Len(exec_log)}

\* C1: the round counter is 0 at the first model call of a query, never
\* exceeds MAX_TOOL_ROUNDS, and tools are executed in at most MAX_TOOL_ROUNDS
\* rounds of a query, whatever the model answers.
C1_RoundBound ==
    /\ tool_round \in 0..MAX_TOOL_ROUNDS
    /\ Len(call_log) >= 1 => call_log[1].round = 0
    /\ Len(call_log) = 0 => tool_round = 0
    /\ Cardinality(ExecutedRounds) <= MAX_TOOL_ROUNDS
    /\ \A r \in ExecutedRounds : r \in 1..MAX_TOOL_ROUNDS

\* the model requested tools on every call, the tool-less last one included
C1_Witness ==
    /\ Len(call_log) = MAX_TOOL_ROUNDS + 1
    /\ response.stop_reason = "tool_use"
    /\ tool_round = MAX_TOOL_ROUNDS
    /\ Cardinality(ExecutedRounds) = MAX_TOOL_ROUNDS

\* C2: every query terminates: at most MAX_TOOL_ROUNDS + 1 model calls are
\* issued in a query, and a query that has started eventually is done or has
\* failed, whatever the model answers.
C2_Terminates ==
    /\ [](Len(call_log) <= MAX_TOOL_ROUNDS + 1)
    /\ [](pc \in {"awaiting_model", "executing_tools"} => <>(pc \in {"done", "failed"}))

\* a query ended after MAX_TOOL_ROUNDS + 1 calls that all requested tools
C2_Witness ==
    /\ pc \in {"done", "failed"}
    /\ Len(call_log) = MAX_TOOL_ROUNDS + 1
    /\ response.stop_reason = "tool_use"
    /\ failure # "model"

\* C3: a model call issued after a tool round offers tool schemas exactly when
\* tools were supplied and the round counter at that call is below
\* MAX_TOOL_ROUNDS; the call at MAX_TOOL_ROUNDS has neither tools nor
\* tool_choice.
C3_ToolsOfferedBelowMax ==
    \A k \in 2..Len(call_log) :
        LET c == call_log[k]
        IN  /\ Has(c.params, "tools") <=> (Len(tools) > 0 /\ c.round < MAX_TOOL_ROUNDS)
            /\ Has(c.params, "tool_choice") <=> Has(c.params, "tools")
            /\ Has(c.params, "tools") => c.params.tools = tools
            /\ c.round = MAX_TOOL_ROUNDS =>
                   ~Has(c.params, "tools") /\ ~Has(c.params, "tool_choice")

\* tools were supplied; the call after round 1 offered them, the call after
\* round MAX_TOOL_ROUNDS did not
C3_Witness ==
    /\ Len(tools) > 0
    /\ Len(call_log) = MAX_TOOL_ROUNDS + 1
    /\ Has(call_log[2].params, "tools")
    /\ ~Has(call_log[MAX_TOOL_ROUNDS + 1].params, "tools")

\* the carrier turns of the transcript: user turns after the first turn
CarrierTurns == {k \in 2..Len(messages) : messages[k].role = "user"}

\* C4: a carrier turn holds exactly one tool result per tool-invocation request
\* of the assistant turn before it, in the order of the requests; the i-th
\* result has the identifier of the i-th request and the string its execution
\* returned.
C4_ResultsMatchRequests ==
    \A k \in CarrierTurns :
        /\ messages[k - 1].role = "assistant"
        /\ LET reqs == Requests(messages[k - 1].content)
               res  == messages[k].content
           IN  /\ Len(res) = Len(reqs)
               /\ \A i \in 1..Len(res) :
                     /\ res[i].type = "tool_result"
                     /\ res[i].tool_use_id = reqs[i].id
                     /\ \E j \in 1..Len(exec_log) :
                           /\ exec_log[j].block = reqs[i]
                           /\ exec_log[j].outcome = "returned"
                           /\ exec_log[j].content = res[i].content

\* a carrier turn with the results of two requests was appended
C4_Witness ==
    \E k \in CarrierTurns :
        /\ Len(messages[k].content) = 2
        /\ messages[k].content[1].content # messages[k].content[2].content

\* the executions of the current query that stored a citation list
Populating == {j \in 1..Len(exec_log) : exec_log[j].populated}

\* C5: the citations returned with a query's answer were all produced by a
\* search executed during that query, and a query in which no search
\* succeeded returns no citations, also when earlier queries failed because a
\* model call raised.
C5_NoStaleCitations ==
    (answer.status = "ok" /\ past_failures \subseteq {"model"}) =>
        /\ \A i \in 1..Len(answer.sources) :
              \E j \in Populating : answer.sources[i] \in Range(exec_log[j].sources)
        /\ Populating = {} => answer.sources = <<>>

\* C6: after a completed query (the answer and its citations were returned)
\* the citation list of every registered tool is empty and get_last_sources
\* returns the empty list.
C6_ResetAfterQuery ==
    (pc = "idle" /\ answer.status = "ok") =>
        /\ \A i \in 1..Len(tm_tools) :
              HasLastSources(tm_tools[i].tool) => last_sources[tm_tools[i].tool] = <<>>
        /\ get_last_sources(tm_tools, last_sources) = <<>>

\* a query whose search stored citations has completed
C6_Witness ==
    /\ pc = "idle"
    /\ answer.status = "ok"
    /\ Len(answer.sources) > 0
    /\ Populating # {}

\* the tool results of the current query: collected in the round being
\* executed or already in a carrier turn
AllToolResults ==
    Range(tool_results) \cup UNION {Range(messages[k].content) : k \in CarrierTurns}

\* C7: a tool execution that fails (the tool reports it or the execution
\* raises) does not abort the round: no query fails because of a tool, and
\* every execution has a tool result carrying what it returned.
C7_FailedExecutionKeepsRound ==
    /\ failure # "tool"
    /\ \A j \in 1..Len(exec_log) :
          \E r \in AllToolResults :
              /\ r.tool_use_id = exec_log[j].block.id
              /\ r.content = exec_log[j].content

\* the text segments of a content, in order
Texts(content) == SelectSeq(content, LAMBDA b : b.type = "text")

FirstTextOrEmpty(content) ==
    IF Len(Texts(content)) = 0 THEN "" ELSE Texts(content)[1].text

\* C8: when a response requests tools and no registry was supplied, one model
\* call is made in total, no tool is executed and generate_response returns
\* the text of the response, the empty string when it has none.
C8_NoRegistryReturnsText ==
    (tool_manager = None /\ response.stop_reason = "tool_use") =>
        /\ Len(call_log) = 1
        /\ exec_log = <<>>
        /\ pc \in {"done", "idle"}
        /\ failure = None
        /\ result = FirstTextOrEmpty(response.content)

\* C9: when generate_response returns, the text returned is the first text
\* segment of the final response; a query in which the model never requested
\* a tool made one call.
C9_ReturnsFirstText ==
    pc = "done" =>
        /\ Len(Texts(response.content)) > 0
        /\ result = Texts(response.content)[1].text
        /\ (tool_round = 0 /\ response.stop_reason # "tool_use") => Len(call_log) = 1

\* a single response with two text segments was returned
C9_Witness ==
    /\ pc = "done"
    /\ Len(call_log) = 1
    /\ response.stop_reason = "end_turn"
    /\ Len(Texts(response.content)) = 2
    /\ result = "Answer"

\* the rounds up to round r of the current query in which a tool returned
RoundsWithResult(r) ==
    {exec_log[j].round : j \in {i \in 1..Len(exec_log) :
                                  exec_log[i].round <= r /\ exec_log[i].outcome = "returned"}}

\* C10 as stated: the transcript sent on every model call has length
\* 1 + 2 x (round counter at that call).
C10_TwoTurnsPerRound ==
    \A k \in 1..Len(call_log) :
        Len(call_log[k].messages) = 1 + 2 * call_log[k].round

\* C10 amended: the transcript grows by two turns for a round whose response
\* carries at least one tool-invocation request, by one turn (the assistant
\* turn) for a round whose response carries none, and by no turn otherwise:
\* the transcript sent on a model call has length 1 + (round counter at that
\* call) + (number of rounds so far in which a tool was executed).
C10_TranscriptLength ==
    /\ \A k \in 1..Len(call_log) :
          Len(call_log[k].messages) =
              1 + call_log[k].round + Cardinality(RoundsWithResult(call_log[k].round))
    /\ \A k \in 2..Len(call_log) :
          /\ call_log[k].round = call_log[k - 1].round + 1
          /\ Len(call_log[k].messages) - Len(call_log[k - 1].messages) =
                 IF call_log[k].round \in RoundsWithResult(call_log[k].round)
                 THEN 2 ELSE 1
    /\ pc = "done" => messages = call_log[Len(call_log)].messages

\* a call at round 2 after one round without a request and one with requests
C10_Witness ==
    \E k \in 1..Len(call_log) :
        /\ call_log[k].round = 2
        /\ Len(call_log[k].messages) = 4

\* the assistant turns of the transcript: one per round entered
AssistantTurns == {k \in 1..Len(messages) : messages[k].role = "assistant"}

\* C11 as stated: whenever no round is in progress, the round counter equals
\* the number of rounds of the query in which at least one tool was executed
\* (an execution that raised or that found no tool counts as executed).
C11_CounterCountsExecutedRounds ==
    pc # "executing_tools" => tool_round = Cardinality(ExecutedRounds)

\* C11 amended: at every point of a query the round counter equals the number
\* of rounds entered, one per assistant turn of the transcript: it increments
\* once on entering a round, before any tool of the round is executed, also
\* for a round in which no tool is executed; the rounds in which a tool was
\* executed are among the rounds counted.
C11_CounterCountsEnteredRounds ==
    /\ tool_round = Cardinality(AssistantTurns)
    /\ ExecutedRounds \subseteq 1..tool_round
    /\ pc = "executing_tools" => AssistantTurn(response) = messages[Len(messages)]

\* a round was entered and left without any tool executed, and it was counted
C11_Witness ==
    /\ pc = "awaiting_model"
    /\ tool_round = 1
    /\ exec_log = <<>>

RECURSIVE RequestsOfTurns(_)
\* the tool-invocation requests of the assistant turns of a transcript,
\* concatenated in transcript order
RequestsOfTurns(msgs) ==
    IF msgs = <<>> THEN <<>>
    ELSE (IF Head(msgs).role = "assistant" THEN Requests(Head(msgs).content) ELSE <<>>)
         \o RequestsOfTurns(Tail(msgs))

\* the requests executed so far in the current query, in execution order
ExecutedBlocks == [j \in 1..Len(exec_log) |-> exec_log[j].block]

IsPrefix(s, t) == Len(s) <= Len(t) /\ s = SubSeq(t, 1, Len(s))

\* C12: the tool executions of a query are, in order, the tool-invocation
\* requests of the responses that opened its rounds, concatenated in round
\* order and in the order each response listed them (a prefix of that
\* sequence while a round is in progress, the whole of it between rounds and
\* at the end of the query); each execution runs the tool registered under
\* the requested name on the requested arguments, in the round of the
\* response that requested it.
C12_ExecutionOrder ==
    /\ IsPrefix(ExecutedBlocks, RequestsOfTurns(messages))
    /\ pc # "executing_tools" /\ failure # "tool" =>
           ExecutedBlocks = RequestsOfTurns(messages)
    /\ \A i, j \in 1..Len(exec_log) : i < j => exec_log[i].round <= exec_log[j].round
    /\ \A j \in 1..Len(exec_log) :
          LET e == exec_log[j] IN
          /\ \E k \in AssistantTurns :
                /\ Cardinality({m \in AssistantTurns : m <= k}) = e.round
                /\ \E i \in 1..Len(messages[k].content) : messages[k].content[i] = e.block
          /\ e.outcome = "returned" =>
                CASE e.block.name = "search_course_content" ->
                         \E r \in SearchResultsSet :
                             e.content = CourseSearchTool_execute(e.block.input, r, <<>>).text
                  [] e.block.name = "get_course_outline" ->
                         \E o \in OutlineSet :
                             e.content = CourseOutlineTool_execute(e.block.input, o)
                  [] OTHER -> e.content = "Tool '" \o e.block.name \o "' not found"

\* the outline is requested in round 1, the search in round 2 and the third
\* response is a text: 3 model calls, 2 executions, the outline first
C12_Witness ==
    /\ pc = "done"
    /\ Len(call_log) = 3
    /\ Len(exec_log) = 2
    /\ exec_log[1].block.name = "get_course_outline" /\ exec_log[1].round = 1
    /\ exec_log[2].block.name = "search_course_content" /\ exec_log[2].round = 2
    /\ result = "Answer"

\* C13: when a model call raises, on the first call or after tool rounds,
\* generate_response is left at once with the exception: the failing call is
\* the last call of the query, no tool is executed after it, the transcript
\* is not touched and no answer is returned.
C13_ModelFailurePropagates ==
    /\ [](failure = "model" => pc \in {"failed", "idle"} /\ result = None)
    /\ [][pc = "awaiting_model" /\ failure' = "model" =>
             /\ pc' = "failed"
             /\ Len(call_log') = Len(call_log) + 1
             /\ exec_log' = exec_log /\ messages' = messages]_vars
    /\ [][failure = "model" /\ failure' = "model" =>
             /\ call_log' = call_log /\ exec_log' = exec_log
             /\ messages' = messages /\ result' = None]_vars

\* the third model call of a query raised, after two rounds of tools
C13_Witness ==
    /\ failure = "model"
    /\ pc = "failed"
    /\ Len(call_log) = 3
    /\ ExecutedRounds = {1, 2}
    /\ result = None

\* the registered tools that hold a non-empty citation list
HoldingSources ==
    {tm_tools[i].tool : i \in {k \in 1..Len(tm_tools) :
                                 /\ HasLastSources(tm_tools[k].tool)
                                 /\ last_sources[tm_tools[k].tool] # <<>>}}

\* C14 as stated: get_last_sources returns the list of the registered tool
\* whose non-empty list was populated most recently, the empty list when no
\* registered tool holds citations, and so never a merge of two lists.
C14_MostRecentlyPopulated ==
    last_op.op = "get_last_sources" =>
        IF HoldingSources = {} THEN last_op.value = <<>>
        ELSE \E k \in 1..Len(populate_order) :
                /\ populate_order[k] \in HoldingSources
                /\ \A m \in (k + 1)..Len(populate_order) :
                       populate_order[m] \notin HoldingSources
                /\ last_op.value = last_sources[populate_order[k]]

\* number of occurrences of x in seq
Count(seq, x) == Cardinality({i \in 1..Len(seq) : seq[i] = x})

\* the citation of a fragment with metadata meta: "<title>[ - Lesson <n>]"
\* with the link of the lesson
CitationOf(meta) ==
    IF Has(meta, "lesson_number")
    THEN SourceLink(meta.course_title \o " - Lesson " \o ToString(meta.lesson_number),
                    get_lesson_link(meta.course_title, meta.lesson_number))
    ELSE SourceLink(meta.course_title, None)

\* C15: after a successful content search, whatever searches went before,
\* the tool's citation list holds the citations of the fragments of that
\* search, one per fragment, and nothing else.
C15_SearchOverwritesSources ==
    last_op.op = "search" /\ Populates(last_op.results) =>
        LET after == last_sources[SearchTool]
            metas == last_op.results.metadata
        IN  /\ Len(after) = Len(metas)
            /\ \A i \in 1..Len(metas) :
                   Count(after, CitationOf(metas[i])) =
                       Cardinality({k \in 1..Len(metas) :
                                      CitationOf(metas[k]) = CitationOf(metas[i])})

\* a search that found one fragment, made when the list held two citations
C15_Witness ==
    /\ last_op.op = "search"
    /\ last_op.had = 2
    /\ Len(last_op.results.metadata) = 1
    /\ last_sources[SearchTool] = <<SourceLink("A Course", None)>>

\* the orders in which n fragments can be listed
Orders(n) == {p \in [1..n -> 1..n] : \A i, j \in 1..n : p[i] = p[j] => i = j}

\* a fragment with metadata a may be cited before one with metadata b: its
\* course title is smaller, or the course is the same and b has no lesson
\* number or a has a lesson number not above that of b
MayPrecede(a, b) ==
    \/ TitleRank(a.course_title) < TitleRank(b.course_title)
    \/ /\ a.course_title = b.course_title
       /\ \/ ~Has(b, "lesson_number")
          \/ Has(a, "lesson_number") /\ a.lesson_number <= b.lesson_number

\* C16: for every result set with fragments, the citation list the content
\* search builds lists the citations of the fragments by course title
\* ascending and, within a course, by lesson number ascending, the fragments
\* without a lesson number after all numbered lessons of the course.
C16_SourcesSorted ==
    last_op.op = "search" /\ Populates(last_op.results) =>
        LET after == last_sources[SearchTool]
            metas == last_op.results.metadata
            n     == Len(metas)
        IN  /\ Len(after) = n
            /\ \E p \in Orders(n) :
                   /\ \A i \in 1..n : after[i] = CitationOf(metas[p[i]])
                   /\ \A i, j \in 1..n : i < j => MayPrecede(metas[p[i]], metas[p[j]])

\* the backend ranked a fragment without lesson number of A Course before
\* lesson 1 of A Course: the citations come out in the other order
C16_Witness ==
    /\ last_op.op = "search"
    /\ last_op.results.metadata = << [course_title |-> "A Course"],
                                     [course_title |-> "A Course", lesson_number |-> 1] >>
    /\ last_sources[SearchTool] =
           << SourceLink("A Course - Lesson 1", "https://example.com/a/lesson-1"),
              SourceLink("A Course", None) >>

\* C19 as stated: on an empty result without error the content search
\* returns "No relevant content found", followed by the course name when a
\* course_name was given and by the lesson number when a lesson_number was
\* given (lesson 0 included), and by nothing else.
C19_EmptyMessageNamesFilters ==
    last_op.op = "search" /\ last_op.results = EmptyResults =>
        last_op.value =
            "No relevant content found"
            \o (IF Has(last_op.input, "course_name")
                THEN " in course '" \o last_op.input.course_name \o "'" ELSE "")
            \o (IF Has(last_op.input, "lesson_number")
                THEN " in lesson " \o ToString(last_op.input.lesson_number) ELSE "")
            \o "."

\* what the content search can return for an empty result without error
EmptyMessages ==
    {CourseSearchTool_execute(input, EmptyResults, <<>>).text : input \in DirectInputs}

\* C20: when the backend result carries an error the content search returns
\* (it does not raise) exactly that error string, not the empty-result
\* message although the result has no fragment; that value differs from
\* everything returned for an empty result without error, and the value
\* returned for an empty result without error is no error string.
C20_ErrorReturnedVerbatim ==
    /\ last_op.op = "search" /\ last_op.results.error # None =>
           /\ is_empty(last_op.results)
           /\ last_op.value = last_op.results.error
           /\ last_op.value \notin EmptyMessages
    /\ last_op.op = "search" /\ last_op.results = EmptyResults =>
           /\ last_op.value \in EmptyMessages
           /\ last_op.value \notin ErrorStrings

\* a search with both filters on which the backend reported an error
C20_Witness ==
    /\ last_op.op = "search"
    /\ last_op.input = [query |-> "testing", course_name |-> "A Course", lesson_number |-> 1]
    /\ last_op.results.error = "No course found matching 'A Course'"
    /\ last_op.value = "No course found matching 'A Course'"

\* the names under which a tool is registered
RegisteredNames == {tm_tools[i].name : i \in 1..Len(tm_tools)}

\* C17: dispatching a name that is not registered returns the string
\* "Tool '<name>' not found": it does not raise, no tool runs, the registered
\* tools and every citation list stay as they were; inside a round the
\* string is the tool result of that request and the round goes on with the
\* next request.
C17_UnknownToolReported ==
    /\ [](\A j \in 1..Len(exec_log) :
             exec_log[j].block.name \notin RegisteredNames =>
                 /\ exec_log[j].outcome = "returned"
                 /\ exec_log[j].content = "Tool '" \o exec_log[j].block.name \o "' not found"
                 /\ ~exec_log[j].populated
                 /\ \E r \in AllToolResults :
                        /\ r.tool_use_id = exec_log[j].block.id
                        /\ r.content = exec_log[j].content)
    /\ [][ToolPending /\ CurrentBlock.name \notin RegisteredNames /\ exec_log' # exec_log =>
             /\ tm_tools' = tm_tools
             /\ last_sources' = last_sources
             /\ failure' = failure
             /\ pc' = "executing_tools"
             /\ tool_results' =
                    Append(tool_results,
                           [type |-> "tool_result", tool_use_id |-> CurrentBlock.id,
                            content |-> "Tool '" \o CurrentBlock.name \o "' not found"])
             /\ NextToolUse(response'.content, block_idx') =
                    NextToolUse(response.content,
                                NextToolUse(response.content, block_idx) + 1)]_vars

\* a round whose first request names no registered tool and whose second
\* request, a search, was executed after it
C17_Witness ==
    /\ Len(exec_log) = 2
    /\ exec_log[1].block.name = "unknown_tool"
    /\ exec_log[1].content = "Tool 'unknown_tool' not found"
    /\ exec_log[2].block.name = "search_course_content"
    /\ exec_log[2].round = exec_log[1].round
    /\ exec_log[2].outcome = "returned"
    /\ pc = "done"

\* C18: registering a tool whose definition has no name, the key missing or
\* the name empty, fails at once with a ValueError and leaves the registered
\* tools as they were; registering a tool that has a name adds exactly that
\* name, bound to that tool, and leaves the other names bound as they were;
\* a name dispatches to a tool exactly when it is registered.
C18_RegisterValidatesName ==
    /\ [][last_op'.op = "register_tool" =>
             LET tool == last_op'.tool
                 name == ToolDefName(tool)
             IN  IF name = None \/ name = ""
                 THEN /\ last_op'.raised = "ValueError"
                      /\ tm_tools' = tm_tools
                 ELSE /\ last_op'.raised = None
                      /\ RegisteredNames' = RegisteredNames \cup {name}
                      /\ tm_tools'[ToolIndex(tm_tools', name)].tool = tool
                      /\ \A n \in RegisteredNames \ {name} :
                             tm_tools'[ToolIndex(tm_tools', n)].tool =
                                 tm_tools[ToolIndex(tm_tools, n)].tool]_vars
    /\ [](\A i \in 1..Len(tm_tools) :
             /\ tm_tools[i].name = ToolDefName(tm_tools[i].tool)
             /\ tm_tools[i].name \notin {None, ""})
    /\ [](last_op.op = "execute_tool" =>
             (last_op.name \in RegisteredNames <=>
                 ~(/\ last_op.raised = None
                   /\ last_op.value = "Tool '" \o last_op.name \o "' not found")))

\* the registration of a tool with the name "" was refused while two tools
\* were registered
C18_Witness ==
    /\ last_op = [op |-> "register_tool", tool |-> EmptyNameTool, raised |-> "ValueError"]
    /\ RegisteredNames = {"search_course_content", "search_notes"}

\* C21: a content search called again with the same arguments, the backend
\* returning what it returned before, returns the same text as the first
\* call and leaves the citation list as the first call left it, in the same
\* order.
C21_SearchIdempotent ==
    [][/\ last_op.op = "search"
       /\ last_op'.op = "search"
       /\ last_op'.input = last_op.input
       /\ last_op'.results = last_op.results
       => /\ last_op'.value = last_op.value
          /\ last_sources' = last_sources]_vars

\* the second of two identical searches that found two fragments ranked
\* against the citation order
C21_Witness ==
    /\ last_op.op = "search"
    /\ last_op.repeat
    /\ last_op.results.metadata = << [course_title |-> "B Course", lesson_number |-> 0],
                                     [course_title |-> "A Course"] >>
    /\ last_sources[SearchTool] = << SourceLink("A Course", None),
                                     SourceLink("B Course - Lesson 0", None) >>

RECURSIVE RenderedFrom(_, _, _)
\* the fragments from position i on, each as "[<title> - Lesson <n>]" or
\* "[<title>]", a newline and its text, with one blank line between two
RenderedFrom(docs, metas, i) ==
    LET header == IF "lesson_number" \in DOMAIN metas[i]
                  THEN "[" \o metas[i].course_title \o " - Lesson "
                       \o ToString(metas[i].lesson_number) \o "]"
                  ELSE "[" \o metas[i].course_title \o "]"
        one    == header \o "\n" \o docs[i]
    IN  IF i = Len(docs) THEN one
        ELSE one \o "\n\n" \o RenderedFrom(docs, metas, i + 1)

\* C22: on a result with fragments the content search returns the fragments
\* in the order of the backend, each rendered as "[<course title> - Lesson
\* <n>]", newline, fragment text when it has a lesson number (0 included) and
\* as "[<course title>]", newline, fragment text when it has none, joined by
\* one blank line.
C22_FormattedText ==
    last_op.op = "search" /\ Populates(last_op.results) =>
        last_op.value = RenderedFrom(last_op.results.documents, last_op.results.metadata, 1)

\* lesson 0 of B Course ranked before a fragment of A Course without lesson
C22_Witness ==
    /\ last_op.op = "search"
    /\ last_op.results.metadata = << [course_title |-> "B Course", lesson_number |-> 0],
                                     [course_title |-> "A Course"] >>
    /\ last_op.value = "[B Course - Lesson 0]\ndoc1\n\n[A Course]\ndoc2"

\* C23: on every model call of a query the system instruction is the static
\* prompt alone when no conversation summary was passed and, when one was
\* passed, the static prompt followed by the heading "Previous conversation:"
\* and the summary, character for character; it is the same on all calls of
\* the query.
C23_SystemInstruction ==
    /\ \A k \in 1..Len(call_log) :
          call_log[k].params.system =
              IF conversation_history = None
              THEN SYSTEM_PROMPT
              ELSE SYSTEM_PROMPT \o "\n\nPrevious conversation:\n" \o conversation_history
    /\ \A k, m \in 1..Len(call_log) : call_log[k].params.system = call_log[m].params.system

\* the third model call of a query that was given a summary
C23_Witness ==
    /\ Len(call_log) = 3
    /\ conversation_history = "User: hi\nAssistant: hello"
    /\ call_log[3].params.system =
           SYSTEM_PROMPT \o "\n\nPrevious conversation:\nUser: hi\nAssistant: hello"

\* C24: the first model call of a query is made at round 0 with a transcript
\* of exactly one turn, the user turn holding the query, and it carries the
\* tool schemas, with tool_choice auto, exactly when a non-empty tool list
\* was passed to the query.
C24_FirstCall ==
    Len(call_log) >= 1 =>
        LET first == call_log[1] IN
        /\ first.round = 0
        /\ Len(first.messages) = 1
        /\ first.messages[1].role = "user"
        /\ first.messages[1].content \in Queries
        /\ first.messages[1] = messages[1]
        /\ ("tools" \in DOMAIN first.params) <=> (tools # <<>>)
        /\ ("tool_choice" \in DOMAIN first.params) <=> (tools # <<>>)
        /\ tools # <<>> =>
               /\ first.params.tools = tools
               /\ first.params.tool_choice = [type |-> "auto"]

\* a query that was passed a registry but an empty tool list has made its
\* first call, without schemas
C24_Witness ==
    /\ Len(call_log) = 1
    /\ tools = <<>>
    /\ tool_manager # None
    /\ DOMAIN call_log[1].params = {"system"}

\* C29: a completed query has made one model call more than it went through
\* tool rounds; a response that does not ask for tools ends the query, and
\* after the end no model call and no tool execution of that query follows.
C29_CallsAreRoundsPlusOne ==
    /\ [](pc = "done" =>
             /\ Len(call_log) = tool_round + 1
             /\ Cardinality(AssistantTurns) = tool_round
             /\ ExecutedRounds \subseteq 1..tool_round)
    /\ [][/\ Len(call_log') = Len(call_log) + 1
             /\ failure' # "model"
             /\ response'.stop_reason # "tool_use"
             => pc' \in {"done", "failed"}]_vars
    /\ [][pc = "done" /\ qnum' = qnum =>
             /\ call_log' = call_log
             /\ exec_log' = exec_log
             /\ result' = result]_vars

\* the model asked for one search and then answered although tools were
\* offered again: 2 calls and 1 execution
C29_Witness ==
    /\ pc = "done"
    /\ Len(call_log) = 2
    /\ Len(exec_log) = 1
    /\ "tools" \in DOMAIN call_log[2].params
    /\ result = "Answer"

\* C30: within a query the transcript only grows at its end: the transcript
\* sent on a model call starts with the transcript sent on the call before,
\* turn for turn, and the turn appended when a round is entered is the
\* assistant turn whose content is the content of the response, all its
\* blocks, text and tool-invocation requests, in their order.
C30_TranscriptAppendOnly ==
    /\ [](\A k \in 2..Len(call_log) :
             /\ IsPrefix(call_log[k - 1].messages, call_log[k].messages)
             /\ Len(call_log[k].messages) > Len(call_log[k - 1].messages))
    /\ [][qnum' = qnum => IsPrefix(messages, messages')]_vars
    /\ [][pc = "awaiting_model" /\ pc' = "executing_tools" =>
             messages' = Append(messages,
                                [role |-> "assistant", content |-> response'.content])]_vars
    /\ [](pc = "executing_tools" =>
             /\ messages[Len(messages)].role = "assistant"
             /\ messages[Len(messages)].content = response.content)

\* the response of the first call held a text block before its two requests
\* and a second call was made: the text block is in the assistant turn sent
C30_Witness ==
    /\ Len(call_log) = 2
    /\ Len(call_log[2].messages) = 3
    /\ call_log[2].messages[2].role = "assistant"
    /\ Len(call_log[2].messages[2].content) = 3
    /\ call_log[2].messages[2].content[1] = TextBlock("Let me look")

\* C26: the outline tool returns "No course found matching '<course_name>'."
\* with the name it was asked for when the backend finds no course, and for
\* a course the backend found it returns something else; it returns, it
\* does not raise.
C26_OutlineNotFound ==
    last_op.op = "outline" =>
        (last_op.found = <<>>) <=>
            (last_op.value = "No course found matching '" \o last_op.input.course_name \o "'.")

\* the lookup of 'Nope' found nothing
C26_Witness ==
    /\ last_op.op = "outline"
    /\ last_op.found = <<>>
    /\ last_op.value = "No course found matching 'Nope'."

\* the lesson lines from the i-th stored lesson on, each on a line of its own
RECURSIVE LessonLinesFrom(_, _)
LessonLinesFrom(lessons, i) ==
    IF i > Len(lessons) THEN ""
    ELSE "\n  Lesson " \o ToString(lessons[i].lesson_number) \o ": "
         \o lessons[i].lesson_title \o LessonLinesFrom(lessons, i + 1)

\* the lessons the backend stored for a found course
StoredLessons(outline) == IF Has(outline, "lessons") THEN outline.lessons ELSE <<>>

\* C27: for a found course the text is the title line, the link line exactly
\* when the course has a link, the instructor line exactly when it has an
\* instructor, and then either the header 'Lessons (N total):', N the number
\* of stored lessons, followed by one 'Lesson <n>: <title>' line per lesson
\* in stored order, or, exactly when there is no lesson, 'No lessons found.'.
C27_OutlineText ==
    (last_op.op = "outline" /\ last_op.found # <<>>) =>
        LET o  == last_op.found[1]
            ls == StoredLessons(o)
        IN  last_op.value =
                "Course: " \o o.title
                \o (IF Has(o, "course_link") THEN "\nLink: " \o o.course_link ELSE "")
                \o (IF Has(o, "instructor") THEN "\nInstructor: " \o o.instructor ELSE "")
                \o (IF ls = <<>> THEN "\n\nNo lessons found."
                    ELSE "\n\nLessons (" \o ToString(Len(ls)) \o " total):"
                         \o LessonLinesFrom(ls, 1))

\* a course with a link and no instructor whose lessons are stored as 1, 0
C27_Witness ==
    /\ last_op.op = "outline"
    /\ last_op.found # <<>>
    /\ Has(last_op.found[1], "lessons")
    /\ Len(last_op.found[1].lessons) = 2
    /\ last_op.found[1].lessons[1].lesson_number = 1
    /\ last_op.found[1].lessons[2].lesson_number = 0
    /\ last_op.value = "Course: A Course\nLink: https://example.com/a\n\nLessons (2 total):\n  Lesson 1: Title 1\n  Lesson 0: Title 0"

\* C25: when every query has its own ToolManager and tools, the citations a
\* query is returned are those its own searches left, whatever the other
\* query does meanwhile, and a step of one query leaves the round counter
\* and the transcript of the other query as they were.
C25_OwnRegistriesIsolated ==
    /\ [](~concurrent.shared =>
             \A q \in QueryIds :
                 concurrent.query[q].pc \in {"read", "finished"} =>
                     concurrent.query[q].sources = concurrent.query[q].left)
    /\ [][~concurrent.shared =>
             \A q \in QueryIds :
                 \/ /\ concurrent'.query[q].tool_round = concurrent.query[q].tool_round
                    /\ concurrent'.query[q].messages = concurrent.query[q].messages
                 \/ \A p \in QueryIds \ {q} :
                        /\ concurrent'.query[p].pc = concurrent.query[p].pc
                        /\ concurrent'.query[p].tool_round = concurrent.query[p].tool_round
                        /\ concurrent'.query[p].messages = concurrent.query[p].messages]_vars

\* query 1 has been returned the citation of its own search while query 2,
\* on its own ToolManager, has searched and is still in flight
C25_Witness ==
    /\ ~concurrent.shared
    /\ concurrent.query[1].pc = "read"
    /\ concurrent.query[1].sources = <<CitationOf([course_title |-> "A Course", lesson_number |-> 0])>>
    /\ concurrent.query[2].pc = "awaiting_model"
    /\ concurrent.query[2].tool_round = 1
    /\ Len(concurrent.last_sources[2][SearchTool]) = 1

\* C28: when the two queries share one ToolManager and tool set, a query is
\* returned citations other than those its own searches left only when the
\* other query populated or reset the shared list in between; the witness
\* shows that this happens, in both ways.
C28_SharedRegistryHazard ==
    concurrent.shared =>
        \A q \in QueryIds :
            concurrent.query[q].pc \in {"read", "finished"} =>
                \/ concurrent.query[q].sources = concurrent.query[q].left
                \/ concurrent.query[q].disturbed

\* query 1 has been returned the citation produced by the search of query 2,
\* and query 2, whose search left that citation, has been returned nothing
\* because the reset of query 1 came before its read
C28_Witness ==
    /\ concurrent.shared
    /\ concurrent.query[1].pc = "finished"
    /\ concurrent.query[1].left = <<>>
    /\ concurrent.query[1].sources = <<CitationOf([course_title |-> "B Course", lesson_number |-> 0])>>
    /\ concurrent.query[2].pc = "read"
    /\ concurrent.query[2].left = <<CitationOf([course_title |-> "B Course", lesson_number |-> 0])>>
    /\ concurrent.query[2].sources = <<>>

\* the registered tools that keep a citation list
RegisteredTracking == {tm_tools[i].tool : i \in {j \in 1..Len(tm_tools) : HasLastSources(tm_tools[j].tool)}}

\* C31: reset_sources leaves the citation list of every registered tool that
\* tracks citations empty, leaves the registered tools and their schemas as
\* they were, changes nothing when it is called again, and get_last_sources
\* called right after it returns the empty list, whatever ran before.
C31_ResetSources ==
    /\ [][last_op'.op = "reset_sources" =>
             /\ \A t \in RegisteredTracking : last_sources'[t] = <<>>
             /\ tm_tools' = tm_tools
             /\ get_tool_definitions(tm_tools') = get_tool_definitions(tm_tools)
             /\ reset_sources(tm_tools', last_sources') = last_sources'
             /\ get_last_sources(tm_tools', last_sources') = <<>>]_vars
    /\ [][last_op.op = "reset_sources" /\ last_op'.op = "reset_sources" =>
             last_sources' = last_sources]_vars
    /\ [][last_op.op = "reset_sources" /\ last_op'.op = "get_last_sources" =>
             last_op'.value = <<>>]_vars

\* a reset with two registered tools that track citations, after searches
\* populated the lists of both
C31_Witness ==
    /\ last_op.op = "reset_sources"
    /\ RegisteredTracking = {SearchTool, NotesTool}
    /\ Len(populate_order) = 2
    /\ \A t \in RegisteredTracking : last_sources[t] = <<>>

\* the tool registered under name (name is registered)
ToolNamed(tm, name) == tm[ToolIndex(tm, name)].tool

\* C35: the registry holds one tool per schema name. A registration puts the
\* tool under its name, in place of the tool that was there, and leaves the
\* other names with their tools; nothing else changes what is registered;
\* get_tool_definitions has one schema per registered name and no name
\* twice; and a dispatch by name runs the tool now registered under the
\* name: no other tool's citation list changes.
C35_OneToolPerName ==
    /\ [](\A i, j \in 1..Len(tm_tools) :
              get_tool_definitions(tm_tools)[i] = get_tool_definitions(tm_tools)[j] => i = j)
    /\ []({get_tool_definitions(tm_tools)[i] : i \in 1..Len(tm_tools)} = RegisteredNames)
    /\ [][last_op'.op = "register_tool" /\ last_op'.raised = None =>
             /\ RegisteredNames' = RegisteredNames \cup {ToolDefName(last_op'.tool)}
             /\ ToolNamed(tm_tools', ToolDefName(last_op'.tool)) = last_op'.tool
             /\ \A n \in RegisteredNames \ {ToolDefName(last_op'.tool)} :
                    ToolNamed(tm_tools', n) = ToolNamed(tm_tools, n)]_vars
    /\ [][~(last_op'.op = "register_tool" /\ last_op'.raised = None) =>
             tm_tools' = tm_tools]_vars
    /\ [][last_op'.op = "execute_tool" /\ last_op'.name \in RegisteredNames =>
             \A t \in DOMAIN last_sources :
                 t # ToolNamed(tm_tools, last_op'.name) => last_sources'[t] = last_sources[t]]_vars

\* the second search tool was registered under the name of the first, which
\* held citations, and a search dispatched by that name has populated the
\* list of the second tool
C35_Witness ==
    /\ last_op.op = "execute_tool"
    /\ last_op.name = "search_course_content"
    /\ Len(tm_tools) = 2
    /\ "search_course_content" \in RegisteredNames
    /\ ToolNamed(tm_tools, "search_course_content") = SecondSearchTool
    /\ populate_order = <<SearchTool, SecondSearchTool>>
    /\ last_sources[SecondSearchTool] # <<>>

\* C33: after a successful search the citation list pairs off with the
\* returned fragments, one citation for each fragment, equal fragments
\* included: the citation of a fragment with lesson number n reads
\* '<course title> - Lesson <n>' and carries what the backend's lesson-link
\* lookup gives for (course title, n), the citation of a fragment without
\* lesson number reads '<course title>' and carries no link; and the lookups
\* made are those of the fragments with a lesson number, one each.
C33_OneCitationPerFragment ==
    last_op.op = "search" /\ Populates(last_op.results) =>
        LET after  == last_sources[SearchTool]
            metas  == last_op.results.metadata
            n      == Len(metas)
            withNo == {i \in 1..n : Has(metas[i], "lesson_number")}
        IN  /\ Len(after) = n
            /\ \E p \in Orders(n) :
                   \A i \in 1..n :
                       IF i \in withNo
                       THEN /\ after[p[i]].text = metas[i].course_title \o " - Lesson "
                                                  \o ToString(metas[i].lesson_number)
                            /\ after[p[i]].link = get_lesson_link(metas[i].course_title,
                                                                  metas[i].lesson_number)
                       ELSE /\ after[p[i]].text = metas[i].course_title
                            /\ after[p[i]].link = None
            /\ Len(last_op.lookups) = Cardinality(withNo)
            /\ \A k \in 1..Len(last_op.lookups) : Has(last_op.lookups[k], "lesson_number")
            /\ \A i \in withNo :
                   Count(last_op.lookups, metas[i]) =
                       Cardinality({k \in withNo : metas[k] = metas[i]})

\* two equal fragments of lesson 0 of a course: two equal citations with
\* the lesson's link, and two lookups
C33_Witness ==
    /\ last_op.op = "search"
    /\ Len(last_op.results.metadata) = 2
    /\ last_op.results.metadata[1] = [course_title |-> "A Course", lesson_number |-> 0]
    /\ last_op.results.metadata[2] = [course_title |-> "A Course", lesson_number |-> 0]
    /\ last_sources[SearchTool] =
           << SourceLink("A Course - Lesson 0", "https://example.com/a/lesson-0"),
              SourceLink("A Course - Lesson 0", "https://example.com/a/lesson-0") >>
    /\ Len(last_op.lookups) = 2

\* the call made was a content search that got fragments from the backend
SuccessfulSearch(op) ==
    op.op = "execute_tool" /\ Has(op, "results") /\ Populates(op.results)

\* C32: the citation lists change only by a successful content search, which
\* changes the list of the tool it was dispatched to, or by reset_sources.
\* A search that got an error or nothing from the backend, an execution of
\* the outline tool, a dispatch of an unknown name (or one whose arguments
\* do not bind), get_last_sources, get_tool_definitions and register_tool
\* leave every list as it was.
C32_SourcesFrame ==
    /\ [][last_sources' # last_sources =>
             \/ last_op'.op = "reset_sources"
             \/ /\ SuccessfulSearch(last_op')
                /\ \A t \in DOMAIN last_sources :
                       t # ToolNamed(tm_tools, last_op'.name) =>
                           last_sources'[t] = last_sources[t]]_vars
    /\ [][last_op'.op = "execute_tool" /\ ~SuccessfulSearch(last_op') =>
             last_sources' = last_sources]_vars
    /\ [][last_op'.op \in {"get_last_sources", "get_tool_definitions", "register_tool"} =>
             last_sources' = last_sources]_vars

\* a search that got an error from the backend, made when the tool held the
\* two citations of an earlier successful search: they are still there
C32_Witness ==
    /\ last_op.op = "execute_tool"
    /\ last_op.name = "search_course_content"
    /\ Has(last_op, "results")
    /\ last_op.results.error = "Search error: backend down"
    /\ "search_course_content" \in RegisteredNames
    /\ Len(last_sources[ToolNamed(tm_tools, "search_course_content")]) = 2

\* C34: whatever the queries before did on the AIGenerator, a query starts
\* with round counter 0 and a transcript that holds its own query and
\* nothing else, also right after a query that reached the round maximum
\* or failed, and its first model call is made at round 0 with that
\* transcript and with the tools it was passed.
C34_QueryStartsFresh ==
    /\ [][qnum' = qnum + 1 =>
             /\ tool_round' = 0
             /\ Len(messages') = 1
             /\ messages'[1].role = "user"
             /\ messages'[1].content \in Queries]_vars
    /\ [](Len(call_log) >= 1 =>
             /\ call_log[1].round = 0
             /\ call_log[1].messages = <<[role |-> "user", content |-> messages[1].content]>>
             /\ tools # <<>> =>
                    /\ "tools" \in DOMAIN call_log[1].params
                    /\ call_log[1].params.tools = tools
                    /\ call_log[1].params.tool_choice = [type |-> "auto"])

\* the first model call of a second query, made with the tools, after a
\* query that failed
C34_Witness ==
    /\ qnum = 2
    /\ past_failures # {}
    /\ Len(call_log) = 1
    /\ tools # <<>>
    /\ call_log[1].round = 0
    /\ Len(call_log[1].messages) = 1
    /\ "tools" \in DOMAIN call_log[1].params

====
